---- MODULE Spec2Model ----
(***************************************************************************)
(* Model of upnp-query.py: the UPnP gateway discovery and introspection    *)
(* script.  One run of get_upnp_actions() is a sequential state machine:   *)
(* gateway lookup, SSDP discovery over UDP, location extraction, device    *)
(* description fetch, and per service the SCPD fetch followed by the       *)
(* examination (and possible SOAP invocation) of each declared action.     *)
(*                                                                         *)
(* Python strings are TLA+ strings (TLC evaluates Len, SubSeq and \o on    *)
(* them).  Python's None is the empty tuple and a present value v is <<v>>.*)
(* The network, the routing table and the documents served by the gateway  *)
(* are the environment: every operation draws its outcome with \E.         *)
(***************************************************************************)
EXTENDS Integers, Sequences, FiniteSets, TLC

VARIABLES pc, gateway_ip, sock, udp_exc, response, location, services, si,
          service_type, control_url, actions, ai, examined, req,
          nUdpSent, nUdpRecv, nGet, nPost, nActions, out, reported, raised

vars == <<pc, gateway_ip, sock, udp_exc, response, location, services, si,
          service_type, control_url, actions, ai, examined, req,
          nUdpSent, nUdpRecv, nGet, nPost, nActions, out, reported, raised>>

\* nUdpSent, nUdpRecv, nGet and nPost count the network operations of the run;
\* nActions counts the action elements of the SCPDs parsed so far (line 127).

(***************************************************************************)
(* Bounds of the model.                                                    *)
(***************************************************************************)
MaxServices == 2
MaxActions == 2

(***************************************************************************)
(* Python values.                                                          *)
(***************************************************************************)
None == <<>>
Some(v) == <<v>>
Val(o) == o[1]

\* truthiness of an optional string: None and "" are falsy
Truthy(o) == o # None /\ Val(o) # ""

(***************************************************************************)
(* str methods, computed character by character.                           *)
(***************************************************************************)
Ch(s, i) == SubSeq(s, i, i)

UpperLetters == "ABCDEFGHIJKLMNOPQRSTUVWXYZ"
LowerLetters == "abcdefghijklmnopqrstuvwxyz"

LowerChar(c) ==
  IF \E i \in 1..26 : Ch(UpperLetters, i) = c
    THEN Ch(LowerLetters, CHOOSE i \in 1..26 : Ch(UpperLetters, i) = c)
    ELSE c

RECURSIVE Lower(_)
Lower(s) == IF s = "" THEN "" ELSE LowerChar(Head(s)) \o Lower(Tail(s))

StartsWith(s, p) == Len(s) >= Len(p) /\ SubSeq(s, 1, Len(p)) = p

\* index of the first occurrence of sep in s, 0 when there is none
Find(s, sep) ==
  LET hits == { i \in 1..(Len(s) - Len(sep) + 1) : SubSeq(s, i, i + Len(sep) - 1) = sep }
  IN IF hits = {} THEN 0 ELSE CHOOSE i \in hits : \A j \in hits : i <= j

\* index of the last occurrence of sep in s at or before i, 0 when there is none
RECURSIVE RFindFrom(_, _, _)
RFindFrom(s, sep, i) ==
  IF i < 1 THEN 0
  ELSE IF SubSeq(s, i, i + Len(sep) - 1) = sep THEN i
  ELSE RFindFrom(s, sep, i - 1)

\* index of the last occurrence of sep in s, 0 when there is none
RFind(s, sep) == RFindFrom(s, sep, Len(s) - Len(sep) + 1)

\* s.split(sep)
RECURSIVE Split(_, _)
Split(s, sep) ==
  LET i == Find(s, sep)
  IN IF i = 0 THEN <<s>>
     ELSE <<SubSeq(s, 1, i - 1)>> \o Split(SubSeq(s, i + Len(sep), Len(s)), sep)

\* s.split(sep, 1)
SplitOnce(s, sep) ==
  LET i == Find(s, sep)
  IN IF i = 0 THEN <<s>>
     ELSE <<SubSeq(s, 1, i - 1), SubSeq(s, i + Len(sep), Len(s))>>

\* s.rsplit(sep, 1)
RSplitOnce(s, sep) ==
  LET i == RFind(s, sep)
  IN IF i = 0 THEN <<s>>
     ELSE <<SubSeq(s, 1, i - 1), SubSeq(s, i + Len(sep), Len(s))>>

IsSpace(c) == c \in {" ", "\t", "\n", "\r", "\f"}

RECURSIVE LStrip(_)
LStrip(s) == IF s # "" /\ IsSpace(Head(s)) THEN LStrip(Tail(s)) ELSE s

RECURSIVE RStrip(_)
RStrip(s) ==
  IF s # "" /\ IsSpace(Ch(s, Len(s))) THEN RStrip(SubSeq(s, 1, Len(s) - 1)) ELSE s

\* s.strip()
Strip(s) == RStrip(LStrip(s))

(***************************************************************************)
(* The environment: what the routing table, the gateway and the network    *)
(* can answer.                                                             *)
(***************************************************************************)
GatewayAddresses == {"192.168.1.1"}

\* outcomes of get_default_gateway: an address, no default route found
\* (the function falls off its end), or an exception (printed, None)
GatewayOutcomes == {"found", "not_found", "error"}

CRLF == "\r\n"
DescUrl == "http://192.168.1.1:5000/desc.xml"
DeepDescUrl == "http://192.168.1.1:5000/igd/desc.xml"

HeaderNames == {"Location:", "LOCATION:", "location:"}
Separators == {" ", "", "\t", "  "}
Trailers == {"", " "}

ReplyWith(headerLines) ==
  "HTTP/1.1 200 OK" \o CRLF \o headerLines \o "ST: upnp:rootdevice" \o CRLF \o CRLF

\* discovery replies: every spelling of the location header, a reply with two
\* location headers, a reply with none, and a zero-length datagram
Replies ==
  { ReplyWith(n \o sep \o DescUrl \o t \o CRLF) :
      n \in HeaderNames, sep \in Separators, t \in Trailers }
  \cup { ReplyWith("Location: " \o DeepDescUrl \o CRLF \o "Location: " \o DescUrl \o CRLF),
         ReplyWith("Server: igd/1.0" \o CRLF),
         "" }

\* a service element of the device description: each child element is
\* present (Some(text)) or missing (None)
WANIPConnection ==
  [serviceType |-> Some("urn:schemas-upnp-org:service:WANIPConnection:1"),
   controlURL |-> Some("/control"),
   SCPDURL |-> Some("/scpd.xml")]

Layer3Forwarding ==
  [serviceType |-> Some("urn:schemas-upnp-org:service:Layer3Forwarding:1"),
   controlURL |-> Some("/l3f/control"),
   SCPDURL |-> Some("/l3f/scpd.xml")]

ServicePool ==
  { WANIPConnection, Layer3Forwarding,
    [WANIPConnection EXCEPT !.serviceType = None],
    [WANIPConnection EXCEPT !.controlURL = None],
    [WANIPConnection EXCEPT !.SCPDURL = None] }

SeqsUpTo(S, n) == UNION { [1..k -> S] : k \in 0..n }

\* root.findall(".//serviceList/service") of a well-formed device description
DeviceDescriptions == SeqsUpTo(ServicePool, MaxServices)

Arg(n, d) == [name |-> n, direction |-> d]

\* an action element of an SCPD: its name child and its argument elements
ActionPool ==
  { [name |-> Some("GetExternalIPAddress"),
     arguments |-> <<Arg(Some("NewExternalIPAddress"), Some("out"))>>],
    [name |-> Some("GetTotalBytesSent"),
     arguments |-> <<>>],
    [name |-> Some("SetConnectionType"),
     arguments |-> <<Arg(Some("NewConnectionType"), Some("in"))>>],
    [name |-> Some("GetSpecificPortMappingEntry"),
     arguments |-> <<Arg(Some("NewExternalPort"), Some("in")),
                     Arg(Some("NewInternalPort"), Some("out"))>>],
    [name |-> Some("GetStatusInfo"),
     arguments |-> <<Arg(Some("NewUptime"), Some("inout"))>>],
    [name |-> Some("GetNATRSIPStatus"),
     arguments |-> <<Arg(Some("NewNATEnabled"), None)>>],
    [name |-> None,
     arguments |-> <<>>] }

\* scpd_root.findall(".//action") of a well-formed SCPD
ScpdDocuments == SeqsUpTo(ActionPool, MaxActions)

\* what an HTTP request can come to: a 2xx or a non-2xx response, or an
\* exception of the requests library before any response
HttpOutcomes == {"2xx", "non2xx", "ConnectionError", "Timeout"}

\* response.text of a 2xx SOAP response
SoapBodies == {"<s:Envelope>ok</s:Envelope>", ""}

RequestExceptions == {"HTTPError", "ConnectionError", "Timeout", "MissingSchema"}

\* requests refuses a URL without a scheme before sending anything
SchemeIs(url, scheme) ==
  Len(url) >= Len(scheme) /\ Lower(SubSeq(url, 1, Len(scheme))) = scheme

HasScheme(url) == SchemeIs(url, "http://") \/ SchemeIs(url, "https://")

NoReq == [op |-> "none", url |-> "", soapaction |-> "", body |-> ""]
NoExc == [type |-> "none", at |-> "none"]
NotExamined == [svc |-> 0, act |-> 0, name |-> None,
                arguments_in |-> <<>>, arguments_out |-> <<>>,
                directions |-> <<>>, posts |-> 0, outcome |-> "none",
                soap_response |-> None]

(***************************************************************************)
(* The state after the interpreter has loaded the module, before the call  *)
(* of get_upnp_actions() on the last line.                                 *)
(***************************************************************************)
Init ==
  /\ pc = "start"
  /\ gateway_ip = None
  /\ sock = "unbound"
  /\ udp_exc = "none"
  /\ response = None
  /\ location = None
  /\ services = <<>>
  /\ si = 0
  /\ service_type = None
  /\ control_url = None
  /\ actions = <<>>
  /\ ai = 0
  /\ examined = NotExamined
  /\ req = NoReq
  /\ nUdpSent = 0
  /\ nUdpRecv = 0
  /\ nGet = 0
  /\ nActions = 0
  /\ nPost = 0
  /\ out = <<>>
  /\ reported = {}
  /\ raised = NoExc

\* a step that sends nothing / examines no action
NoRequest == req' = NoReq
NoAction == examined' = NotExamined

\* print(...): the lines of the current step, and the failures reported so far
Emit(lines, failures) ==
  /\ out' = lines
  /\ reported' = reported \cup failures

(***************************************************************************)
(* get_default_gateway and the guard of get_upnp_actions.                  *)
(***************************************************************************)
\* a variant without the guard of line 73
AfterGatewayCheck_NoGuard(ip) == "udp_socket"

\* lines 73-75: `if not gateway_ip: ... return`
AfterGatewayCheck(ip) == IF Truthy(ip) THEN "udp_socket" ELSE "done"

GetDefaultGateway ==
  /\ pc = "start"
  /\ NoRequest /\ NoAction
  /\ \E o \in GatewayOutcomes :
       \/ /\ o = "found"
          /\ \E ip \in GatewayAddresses : gateway_ip' = Some(ip)
          /\ pc' = AfterGatewayCheck(gateway_ip')
          /\ Emit(<<>>, {})
       \/ /\ o = "not_found"
          /\ gateway_ip' = None
          /\ pc' = AfterGatewayCheck(gateway_ip')
          /\ Emit(<<"Could not determine the default gateway.">>,
                   {"Could not determine the default gateway."})
       \/ /\ o = "error"
          /\ gateway_ip' = None
          /\ pc' = AfterGatewayCheck(gateway_ip')
          /\ Emit(<<"Error fetching default gateway", "Could not determine the default gateway.">>,
                   {"Error fetching default gateway", "Could not determine the default gateway."})
  /\ UNCHANGED <<sock, udp_exc, response, location, services, si, service_type,
                 control_url, actions, ai,
                 nUdpSent, nUdpRecv, nGet, nPost, nActions, raised>>

(***************************************************************************)
(* get_upnp_description and send_udp_request, one step per statement that  *)
(* can raise.                                                              *)
(***************************************************************************)
port == 1900

\* the M-SEARCH request of get_upnp_description
SearchMessage(ip) ==
  "M-SEARCH * HTTP/1.1" \o CRLF \o "ST: upnp:rootdevice" \o CRLF \o "MX: 2" \o CRLF
    \o "MAN: \"ssdp:discover\"" \o CRLF
    \o "HOST: " \o ip \o ":" \o ToString(port) \o CRLF \o CRLF

\* socket.socket(...) and sock.settimeout(5)
UdpSocket ==
  /\ pc = "udp_socket"
  /\ NoRequest /\ NoAction
  /\ \/ /\ sock' = "open"
        /\ udp_exc' = "none"
        /\ pc' = "udp_sendto"
     \/ /\ sock' = sock
        /\ udp_exc' = "error"
        /\ pc' = "udp_except"
  /\ Emit(<<>>, {})
  /\ UNCHANGED <<gateway_ip, response, location, services, si, service_type,
                 control_url, actions, ai,
                 nUdpSent, nUdpRecv, nGet, nPost, nActions, raised>>

\* sock.sendto(message.encode('utf-8'), (ip, port))
UdpSendTo ==
  /\ pc = "udp_sendto"
  /\ NoAction
  /\ \/ /\ nUdpSent' = nUdpSent + 1
        /\ req' = [op |-> "udp",
                   url |-> Val(gateway_ip) \o ":" \o ToString(port),
                   soapaction |-> "",
                   body |-> SearchMessage(Val(gateway_ip))]
        /\ udp_exc' = "none"
        /\ pc' = "udp_recvfrom"
     \/ /\ UNCHANGED nUdpSent
        /\ NoRequest
        /\ udp_exc' = "error"
        /\ pc' = "udp_except"
  /\ Emit(<<>>, {})
  /\ UNCHANGED <<gateway_ip, sock, response, location, services, si, service_type,
                 control_url, actions, ai,
                 nUdpRecv, nGet, nPost, nActions, raised>>

\* sock.recvfrom(65507) and response.decode('utf-8')
UdpRecvFrom ==
  /\ pc = "udp_recvfrom"
  /\ NoRequest /\ NoAction
  /\ nUdpRecv' = nUdpRecv + 1
  /\ \/ \E r \in Replies :
          /\ response' = Some(r)
          /\ udp_exc' = "none"
          /\ pc' = "udp_finally"
     \/ \E e \in {"timeout", "error"} :
          \* socket.timeout, or OSError / UnicodeDecodeError
          /\ response' = None
          /\ udp_exc' = e
          /\ pc' = "udp_except"
  /\ Emit(<<>>, {})
  /\ UNCHANGED <<gateway_ip, sock, location, services, si, service_type,
                 control_url, actions, ai,
                 nUdpSent, nGet, nPost, nActions, raised>>

\* a variant that sends the request again after a timeout
AfterExcept_Retry(e) == IF e = "timeout" THEN "udp_sendto" ELSE "udp_finally"

\* an except clause of send_udp_request falls through to the finally clause
AfterExcept(e) == "udp_finally"

\* the except clauses of send_udp_request
UdpExcept ==
  /\ pc = "udp_except"
  /\ NoRequest /\ NoAction
  /\ IF udp_exc = "timeout"
       THEN Emit(<<"No response from the gateway.">>, {"No response from the gateway."})
       ELSE Emit(<<"Error sending UDP request">>, {"Error sending UDP request"})
  /\ pc' = AfterExcept(udp_exc)
  /\ UNCHANGED <<gateway_ip, sock, udp_exc, response, location, services, si,
                 service_type, control_url, actions, ai,
                 nUdpSent, nUdpRecv, nGet, nPost, nActions, raised>>

\* what sock.close() in the finally clause does to the name sock: a name that
\* was never bound raises UnboundLocalError
CloseSocket(s) == IF s = "unbound" THEN "UnboundLocalError" ELSE "closed"

\* the finally clause of send_udp_request and the return to get_upnp_actions,
\* whose try statement handles RequestException and ParseError only
UdpFinally ==
  /\ pc = "udp_finally"
  /\ NoRequest /\ NoAction
  /\ IF CloseSocket(sock) = "closed"
       THEN /\ sock' = "closed"
            /\ raised' = raised
            /\ pc' = "extract_location"
       ELSE /\ sock' = sock
            /\ raised' = [type |-> CloseSocket(sock), at |-> "discovery"]
            /\ pc' = "done"
  /\ Emit(<<>>, {})
  /\ UNCHANGED <<gateway_ip, udp_exc, response, location, services, si,
                 service_type, control_url, actions, ai,
                 nUdpSent, nUdpRecv, nGet, nPost, nActions>>

(***************************************************************************)
(* Lines 82-92: the location header of the discovery reply.                *)
(***************************************************************************)
\* index of the first line that starts with "location:" in lower case, or 0
LocationLine(lines) ==
  LET hits == { i \in 1..Len(lines) : StartsWith(Lower(lines[i]), "location:") }
  IN IF hits = {} THEN 0 ELSE CHOOSE i \in hits : \A j \in hits : i <= j

\* line.split(" ", 1)[1].strip(): IndexError when the line has no space
HeaderValue(line) ==
  LET parts == SplitOnce(line, " ")
  IN IF Len(parts) < 2 THEN [kind |-> "IndexError", value |-> ""]
     ELSE [kind |-> "ok", value |-> Strip(parts[2])]

\* the for/else loop over response.split("\r\n")
FindLocation(text) ==
  LET lines == Split(text, CRLF)
      i == LocationLine(lines)
  IN IF i = 0 THEN [kind |-> "missing", value |-> ""] ELSE HeaderValue(lines[i])

\* FindLocation over the replies of the model, computed once
LocationOf == [text \in Replies |-> FindLocation(text)]

\* response is not read after line 88: when the run goes on, the model forgets
\* the reply text, so that runs that differ only in the spelling of the reply meet
ExtractLocation ==
  /\ pc = "extract_location"
  /\ NoRequest /\ NoAction
  /\ IF ~Truthy(response)
       THEN \* if not response: return
            /\ pc' = "done"
            /\ UNCHANGED <<response, location, raised>>
            /\ Emit(<<>>, {})
       ELSE LET found == LocationOf[Val(response)]
            IN CASE found.kind = "missing" ->
                      /\ pc' = "done"
                      /\ UNCHANGED <<response, location, raised>>
                      /\ Emit(<<"No location header found in the response.">>,
                              {"No location header found in the response."})
                 [] found.kind = "IndexError" ->
                      /\ pc' = "done"
                      /\ raised' = [type |-> "IndexError", at |-> "location"]
                      /\ UNCHANGED <<response, location>>
                      /\ Emit(<<>>, {})
                 [] OTHER ->
                      /\ pc' = "fetch_description"
                      /\ location' = Some(found.value)
                      /\ response' = None
                      /\ UNCHANGED raised
                      /\ Emit(<<>>, {})
  /\ UNCHANGED <<gateway_ip, sock, udp_exc, services, si, service_type,
                 control_url, actions, ai,
                 nUdpSent, nUdpRecv, nGet, nPost, nActions>>

(***************************************************************************)
(* The try statement of get_upnp_actions: an exception raised inside it    *)
(* ends the run; RequestException and ParseError are printed, any other    *)
(* exception leaves the function unhandled.                                *)
(***************************************************************************)
\* a variant without the except clause for ParseError
HandlerLine_RequestOnly(type) ==
  IF type \in RequestExceptions THEN <<"Error while connecting to gateway">>
  ELSE <<>>

HandlerLine(type) ==
  IF type \in RequestExceptions THEN <<"Error while connecting to gateway">>
  ELSE IF type = "ParseError" THEN <<"Error parsing XML">>
  ELSE <<>>

\* a variant whose handler goes back to the stage that failed
Raise_Again(type, at, printed) ==
  /\ raised' = [type |-> type, at |-> at]
  /\ pc' = pc
  /\ Emit(printed \o HandlerLine(type), { HandlerLine(type)[i] : i \in 1..Len(HandlerLine(type)) })

Raise(type, at, printed) ==
  /\ raised' = [type |-> type, at |-> at]
  /\ pc' = "done"
  /\ Emit(printed \o HandlerLine(type), { HandlerLine(type)[i] : i \in 1..Len(HandlerLine(type)) })

Uncaught == raised.type \notin (RequestExceptions \cup {"ParseError", "none"})

\* the outcomes of requests.get / requests.post for a URL
OutcomesFor(url) == IF HasScheme(url) THEN HttpOutcomes ELSE {"MissingSchema"}

\* the exception an outcome raises at the request or at raise_for_status
ExceptionOf(o) == IF o = "non2xx" THEN "HTTPError" ELSE o

GetRequest(url) == [op |-> "get", url |-> url, soapaction |-> "", body |-> ""]

(***************************************************************************)
(* Lines 95-108: fetch and parse the device description.                   *)
(***************************************************************************)
FetchDescription ==
  /\ pc = "fetch_description"
  /\ NoAction
  /\ LET url == Val(location)
         l95 == <<"Device description XML location: " \o url>>
         l99 == <<"Request returned status code", "Response headers">>
     IN \E o \in OutcomesFor(url) :
          /\ IF o = "MissingSchema"
               THEN UNCHANGED nGet /\ NoRequest
               ELSE nGet' = nGet + 1 /\ req' = GetRequest(url)
          /\ CASE o \in {"MissingSchema", "ConnectionError", "Timeout"} ->
                    /\ Raise(ExceptionOf(o), "description", l95)
                    /\ UNCHANGED services
               [] o = "non2xx" ->
                    /\ Raise(ExceptionOf(o), "description", l95 \o l99)
                    /\ UNCHANGED services
               [] OTHER ->
                    \/ \* ET.fromstring rejects the body
                       /\ Raise("ParseError", "description", l95 \o l99)
                       /\ UNCHANGED services
                    \/ \E doc \in DeviceDescriptions :
                         /\ services' = doc
                         /\ pc' = "service_loop"
                         /\ UNCHANGED raised
                         /\ Emit(l95 \o l99, {})
  /\ UNCHANGED <<gateway_ip, sock, udp_exc, response, location, si, service_type,
                 control_url, actions, ai,
                 nUdpSent, nUdpRecv, nPost, nActions>>

(***************************************************************************)
(* Lines 110-127: one iteration of the loop over the services, up to the   *)
(* parsed SCPD.                                                            *)
(***************************************************************************)
\* f"{location.rsplit('/', 1)[0]}{path}"
JoinUrl(loc, path) == RSplitOnce(loc, "/")[1] \o path

\* service.find(tag).text of lines 111-113 raises AttributeError on a
\* missing child element
IsComplete(service) ==
  /\ service.serviceType # None
  /\ service.controlURL # None
  /\ service.SCPDURL # None

\* a variant of the for statement that takes the last element left
Current_Last(elements) == elements[Len(elements)]

\* the for statements of lines 110 and 130 take the elements in document order
Current(elements) == Head(elements)

ServiceStep ==
  /\ pc = "service_loop"
  /\ services # <<>>
  /\ NoAction
  /\ LET service == Current(services)
     IN /\ services' = Tail(services)
        /\ si' = si + 1
        /\ IF ~IsComplete(service)
             THEN \* the assignments before the missing child are made
                  /\ Raise("AttributeError", "service", <<>>)
                  /\ service_type' = IF service.serviceType # None
                                       THEN service.serviceType ELSE service_type
                  /\ UNCHANGED <<control_url, actions, ai, nGet, nActions>>
                  /\ NoRequest
             ELSE LET scpd_url == JoinUrl(Val(location), Val(service.SCPDURL))
                      l114 == <<"Service Type: " \o Val(service.serviceType),
                                "Control URL: " \o Val(service.SCPDURL),
                                "Control URL: " \o Val(service.controlURL)>>
                  IN /\ service_type' = service.serviceType
                     /\ control_url' = Some(JoinUrl(Val(location), Val(service.controlURL)))
                     /\ \E o \in OutcomesFor(scpd_url) :
                          /\ IF o = "MissingSchema"
                               THEN UNCHANGED nGet /\ NoRequest
                               ELSE nGet' = nGet + 1 /\ req' = GetRequest(scpd_url)
                          /\ IF o # "2xx"
                               THEN /\ Raise(ExceptionOf(o), "scpd", l114)
                                    /\ UNCHANGED <<actions, ai, nActions>>
                               ELSE \/ /\ Raise("ParseError", "scpd", l114)
                                       /\ UNCHANGED <<actions, ai, nActions>>
                                    \/ \E doc \in ScpdDocuments :
                                         /\ actions' = doc
                                         /\ nActions' = nActions + Len(doc)
                                         /\ ai' = 0
                                         /\ pc' = "action_loop"
                                         /\ UNCHANGED raised
                                         /\ Emit(l114 \o <<"Available Actions:">>, {})
  /\ UNCHANGED <<gateway_ip, sock, udp_exc, response, location,
                 nUdpSent, nUdpRecv, nPost>>

\* the loop over the services has no element left: the run is complete
ServicesExhausted ==
  /\ pc = "service_loop"
  /\ services = <<>>
  /\ NoRequest /\ NoAction
  /\ pc' = "done"
  /\ Emit(<<>>, {})
  /\ UNCHANGED <<gateway_ip, sock, udp_exc, response, location, services, si,
                 service_type, control_url, actions, ai,
                 nUdpSent, nUdpRecv, nGet, nPost, nActions, raised>>

(***************************************************************************)
(* perform_soap_request.                                                   *)
(***************************************************************************)
\* the f-string of lines 49-56
SoapEnvelope(stype, action_name, arguments) ==
  "<?xml version=\"1.0\"?>\n"
    \o "    <s:Envelope xmlns:s=\"http://schemas.xmlsoap.org/soap/envelope/\""
    \o " s:encodingStyle=\"http://schemas.xmlsoap.org/soap/encoding/\">\n"
    \o "        <s:Body>\n"
    \o "            <u:" \o action_name \o " xmlns:u=\"" \o stype \o "\">\n"
    \o "                " \o arguments \o "\n"
    \o "            </u:" \o action_name \o ">\n"
    \o "        </s:Body>\n"
    \o "    </s:Envelope>"

\* the SOAPAction header of line 60
SoapAction(stype, action_name) == "\"" \o stype \o "#" \o action_name \o "\""

\* a variant whose except clause names the transport errors only
CaughtBySoapRequest_TransportOnly(type) == type \in {"ConnectionError", "Timeout"}

\* the except clause of line 67
CaughtBySoapRequest(type) == type \in RequestExceptions

\* a variant that labels every request with one hard-coded service type
PostRequest_FixedType(url, stype, action_name, arguments) ==
  [op |-> "post", url |-> url,
   soapaction |-> SoapAction(WANIPConnection.serviceType[1], action_name),
   body |-> SoapEnvelope(WANIPConnection.serviceType[1], action_name, arguments)]

PostRequest(url, stype, action_name, arguments) ==
  [op |-> "post", url |-> url,
   soapaction |-> SoapAction(stype, action_name),
   body |-> SoapEnvelope(stype, action_name, arguments)]

(***************************************************************************)
(* Lines 130-149: one iteration of the loop over the actions of a service. *)
(***************************************************************************)
\* index of the first argument element without a name or a direction child
\* (lines 137-138 raise AttributeError there), or 0
FirstBadArgument(arguments) ==
  LET bad == { i \in 1..Len(arguments) :
                 arguments[i].name = None \/ arguments[i].direction = None }
  IN IF bad = {} THEN 0 ELSE CHOOSE i \in bad : \A j \in bad : i <= j

\* a variant that takes every direction other than 'in' for an output
IsOut_NotIn(direction) == direction # "in"

\* lines 140-143: 'out' goes to arguments_out, everything else to arguments_in
IsOut(direction) == direction = "out"

RECURSIVE ArgumentsOut(_)
ArgumentsOut(arguments) ==
  IF arguments = <<>> THEN <<>>
  ELSE (IF IsOut(Val(Head(arguments).direction))
          THEN <<Val(Head(arguments).name)>> ELSE <<>>)
       \o ArgumentsOut(Tail(arguments))

RECURSIVE ArgumentsIn(_)
ArgumentsIn(arguments) ==
  IF arguments = <<>> THEN <<>>
  ELSE (IF IsOut(Val(Head(arguments).direction))
          THEN <<>> ELSE <<Val(Head(arguments).name)>>)
       \o ArgumentsIn(Tail(arguments))

RECURSIVE ArgumentLines(_)
ArgumentLines(arguments) ==
  IF arguments = <<>> THEN <<>>
  ELSE <<"    - " \o Val(Head(arguments).name)
           \o " (" \o Val(Head(arguments).direction) \o ")">>
       \o ArgumentLines(Tail(arguments))

Directions(arguments) == [i \in 1..Len(arguments) |-> Val(arguments[i].direction)]

\* the condition of line 145
ShouldInvoke(action_name, arguments_in) ==
  StartsWith(action_name, "Get") /\ Len(arguments_in) = 0

\* a variant that posts a second time when the first attempt fails
PerformSoapRequest_RetryOnce(action_name, seen, printed) ==
  /\ nPost' = nPost + 2
  /\ req' = PostRequest(Val(control_url), Val(service_type), action_name, "")
  /\ \E text \in SoapBodies :
       /\ examined' = [seen EXCEPT !.posts = 2, !.outcome = "2xx",
                                   !.soap_response = Some(text)]
       /\ Emit(printed \o <<"SOAP Response for " \o action_name \o ": " \o text>>, {})
  /\ pc' = "action_loop"
  /\ UNCHANGED raised

\* lines 147-149 with perform_soap_request (lines 63-69): the POST, its
\* outcome, and the report of the result
PerformSoapRequest(action_name, seen, printed) ==
  \E o \in OutcomesFor(Val(control_url)) :
    LET sent == o # "MissingSchema"
        failed == [seen EXCEPT !.posts = IF sent THEN 1 ELSE 0,
                               !.outcome = ExceptionOf(o)]
    IN /\ IF sent
            THEN /\ nPost' = nPost + 1
                 /\ req' = PostRequest(Val(control_url), Val(service_type), action_name, "")
            ELSE UNCHANGED nPost /\ NoRequest
       /\ CASE o = "2xx" ->
                 \E text \in SoapBodies :
                   /\ examined' = [seen EXCEPT !.posts = 1, !.outcome = "2xx",
                                               !.soap_response = Some(text)]
                   /\ pc' = "action_loop"
                   /\ UNCHANGED raised
                   /\ IF Truthy(Some(text))
                        THEN Emit(printed \o <<"SOAP Response for " \o action_name
                                                 \o ": " \o text>>, {})
                        ELSE Emit(printed, {})
            [] o # "2xx" /\ CaughtBySoapRequest(ExceptionOf(o)) ->
                 \* line 68: printed, perform_soap_request returns None
                 /\ examined' = failed
                 /\ pc' = "action_loop"
                 /\ UNCHANGED raised
                 /\ Emit(printed \o <<"Error during SOAP request">>,
                         {"Error during SOAP request"})
            [] OTHER ->
                 \* the exception leaves perform_soap_request
                 /\ examined' = failed
                 /\ Raise(ExceptionOf(o), "soap", printed)

ActionStep ==
  /\ pc = "action_loop"
  /\ actions # <<>>
  /\ LET action == Current(actions)
         bad == FirstBadArgument(action.arguments)
     IN /\ actions' = Tail(actions)
        /\ ai' = ai + 1
        /\ IF action.name = None
             THEN /\ Raise("AttributeError", "action", <<>>)
                  /\ NoRequest /\ NoAction
                  /\ UNCHANGED nPost
           ELSE IF bad # 0
             THEN /\ Raise("AttributeError", "action",
                           <<"  - " \o Val(action.name)>>
                             \o ArgumentLines(SubSeq(action.arguments, 1, bad - 1)))
                  /\ NoRequest /\ NoAction
                  /\ UNCHANGED nPost
           ELSE LET action_name == Val(action.name)
                    arguments_in == ArgumentsIn(action.arguments)
                    arguments_out == ArgumentsOut(action.arguments)
                    l132 == <<"  - " \o action_name>> \o ArgumentLines(action.arguments)
                    seen == [svc |-> si, act |-> ai + 1, name |-> action.name,
                             arguments_in |-> arguments_in,
                             arguments_out |-> arguments_out,
                             directions |-> Directions(action.arguments),
                             posts |-> 0, outcome |-> "none", soap_response |-> None]
                IN IF ShouldInvoke(action_name, arguments_in)
                     THEN PerformSoapRequest(action_name, seen, l132)
                     ELSE /\ examined' = seen
                          /\ pc' = "action_loop"
                          /\ UNCHANGED <<raised, nPost>>
                          /\ NoRequest
                          /\ Emit(l132, {})
  /\ UNCHANGED <<gateway_ip, sock, udp_exc, response, location, services, si,
                 service_type, control_url, nUdpSent, nUdpRecv, nGet, nActions>>

\* the loop over the actions has no element left: on to the next service
ActionsExhausted ==
  /\ pc = "action_loop"
  /\ actions = <<>>
  /\ NoRequest /\ NoAction
  /\ pc' = "service_loop"
  /\ Emit(<<>>, {})
  /\ UNCHANGED <<gateway_ip, sock, udp_exc, response, location, services, si,
                 service_type, control_url, actions, ai,
                 nUdpSent, nUdpRecv, nGet, nPost, nActions, raised>>

Next ==
  \/ GetDefaultGateway
  \/ UdpSocket
  \/ UdpSendTo
  \/ UdpRecvFrom
  \/ UdpExcept
  \/ UdpFinally
  \/ ExtractLocation
  \/ FetchDescription
  \/ ServiceStep
  \/ ServicesExhausted
  \/ ActionStep
  \/ ActionsExhausted

Spec == Init /\ [][Next]_vars

\* Every call of the run is a blocking call that returns or raises: the UDP
\* receive and each HTTP request carry a timeout of 5 seconds (lines 32, 64,
\* 98, 121), and the interpreter always goes on to the next statement.
FairSpec == Spec /\ WF_vars(Next)

(***************************************************************************)
(* Properties.                                                             *)
(***************************************************************************)
Failures == {"Could not determine the default gateway.",
             "Error fetching default gateway",
             "No response from the gateway.",
             "Error sending UDP request",
             "No location header found in the response.",
             "Error during SOAP request",
             "Error while connecting to gateway",
             "Error parsing XML"}

\* C1: a failure to fetch or parse the SCPD of one service does not end the
\* run: the services after it are still processed.  As an invariant: the run
\* is never over because of an SCPD failure while services are left in the
\* loop.
C1_ServiceIsolation ==
  (pc = "done" /\ raised.at = "scpd") => services = <<>>

\* the eligibility rule as the specification words it: the name starts with
\* "Get" and no argument has the direction "in"
StatedEligible(name, directions) ==
  /\ StartsWith(name, "Get")
  /\ \A i \in 1..Len(directions) : directions[i] # "in"

ActionExamined == examined.act # 0

\* C2: an examined action is invoked if and only if its name starts with
\* "Get" and it declares no argument with direction "in".
C2_EligibilityRule ==
  ActionExamined =>
    (examined.posts >= 1 <=> StatedEligible(Val(examined.name), examined.directions))

\* the body holds one element named after the action, in the namespace of the
\* service type, with nothing but white space inside
EmptyActionElement(body, stype, name) ==
  LET open == "<u:" \o name \o " xmlns:u=\"" \o stype \o "\">"
      close == "</u:" \o name \o ">"
      i == Find(body, open)
      j == Find(body, close)
  IN /\ i # 0
     /\ j > i
     /\ Strip(SubSeq(body, i + Len(open), j - 1)) = ""
     /\ RFind(body, open) = i

\* C3: every eligible action that is reached produces exactly one SOAP POST,
\* whose SOAPAction header is "<serviceType>#<actionName>" in quotes and
\* whose body is the empty action element; an ineligible action produces none.
C3_OnePostPerEligibleAction ==
  ActionExamined =>
    IF StatedEligible(Val(examined.name), examined.directions)
      THEN /\ examined.posts = 1
           /\ req.op = "post"
           /\ req.soapaction = "\"" \o Val(service_type) \o "#" \o Val(examined.name) \o "\""
           /\ EmptyActionElement(req.body, Val(service_type), Val(examined.name))
      ELSE /\ examined.posts = 0
           /\ req.op # "post"

\* send_udp_request has returned or raised
DiscoveryLeft ==
  \/ pc \in {"extract_location", "fetch_description", "service_loop", "action_loop"}
  \/ pc = "done" /\ gateway_ip # None

\* C4: on every way out of the discovery step the UDP socket is released: no
\* way out leaves it open, and none fails while releasing it.
C4_SocketReleased ==
  DiscoveryLeft => (sock # "open" /\ raised.type # "UnboundLocalError")

SoapFailed == ActionExamined /\ examined.outcome \in RequestExceptions

\* C5: a failed SOAP invocation is reported for its action and ends neither
\* loop: the step that fails stays in the loop over the actions with no
\* exception pending, the next step takes the next action of the same service
\* (or goes on to the next service when none is left), and a run that ends
\* without an exception has gone through every service.
C5_SoapFailureIsolated ==
  /\ [](SoapFailed =>
          /\ pc = "action_loop"
          /\ raised = NoExc
          /\ examined.posts = 1
          /\ out[1] = "  - " \o Val(examined.name)
          /\ out[Len(out)] = "Error during SOAP request"
          /\ "Error during SOAP request" \in reported)
  /\ []((pc = "done" /\ raised = NoExc /\ "Error during SOAP request" \in reported)
          => (services = <<>> /\ actions = <<>>))
  /\ [][SoapFailed =>
          IF actions # <<>>
            THEN /\ actions' = Tail(actions)
                 /\ ai' = ai + 1
                 /\ services' = services
                 /\ (examined'.act = ai + 1 \/ raised'.at = "action")
            ELSE /\ pc' = "service_loop"
                 /\ services' = services]_vars

\* a SOAP invocation has failed while actions of the same service and further
\* services are still to come
C5_Witness ==
  SoapFailed /\ actions # <<>> /\ services # <<>>

\* C6: a service element that lacks serviceType, controlURL or SCPDURL gives
\* a reported failure: the run does not crash on it.
C6_IncompleteServiceReported ==
  raised.at = "service" => (~Uncaught /\ reported \cap Failures # {})

\* C7: an argument whose direction is neither "in" nor "out" is a parse error:
\* it is not counted as an "in" argument and the processing of the service
\* ends with a reported failure.
C7_UnknownDirectionRejected ==
  (ActionExamined /\ \E i \in 1..Len(examined.directions) :
                       examined.directions[i] \notin {"in", "out"})
    => /\ Len(examined.arguments_in)
            = Cardinality({ i \in 1..Len(examined.directions) : examined.directions[i] = "in" })
       /\ reported \cap Failures # {}

HasLocationHeader(text) == LocationLine(Split(text, CRLF)) # 0

\* the value of the first location header as the specification words it: what
\* follows the header name, without the white space around it
StatedLocation(text) ==
  LET lines == Split(text, CRLF)
      line == lines[LocationLine(lines)]
  IN Strip(SubSeq(line, Len("location:") + 1, Len(line)))

\* C8: for a reply with a location header, in any letter case and with any
\* white space (or none) around the value, the extracted location is the value
\* of the first such header, and the extraction does not crash.
C8_LocationExtraction ==
  [][(pc = "extract_location" /\ Truthy(response) /\ HasLocationHeader(Val(response)))
       => /\ location' = Some(StatedLocation(Val(response)))
          /\ raised' = NoExc]_vars

\* C9: a reply without a location header ends the run with a reported
\* MissingLocation failure; no HTTP request is issued and no location is set.
C9_MissingLocationReported ==
  (pc = "done" /\ response # None /\ ~HasLocationHeader(Val(response)))
    => /\ "No location header found in the response." \in reported
       /\ nGet = 0
       /\ nPost = 0
       /\ location = None

DiscoveryFailed == udp_exc \in {"timeout", "error"}

\* C10: a run sends one discovery datagram and awaits one reply, never more:
\* exactly one datagram has gone out whenever a reply is awaited, has timed
\* out or has arrived, and exactly one reply was awaited whenever the wait has
\* timed out or a reply has arrived (a run whose socket or send fails sends
\* none); after a receive timeout or a socket error nothing is sent again and
\* no HTTP request is issued: the run goes through the handler and ends.
C10_SingleDiscovery ==
  /\ nUdpSent \in {0, 1}
  /\ nUdpRecv \in {0, 1}
  /\ nUdpRecv = 1 => nUdpSent = 1
  /\ pc \in {"fetch_description", "service_loop", "action_loop"}
       => (nUdpSent = 1 /\ nUdpRecv = 1)
  /\ (pc = "udp_recvfrom" \/ udp_exc = "timeout" \/ response # None) => nUdpSent = 1
  /\ (udp_exc = "timeout" \/ response # None) => nUdpRecv = 1
  /\ DiscoveryFailed
       => /\ pc \in {"udp_except", "udp_finally", "extract_location", "done"}
          /\ nGet = 0
          /\ nPost = 0
          /\ location = None

\* the run is over after a receive timeout: one datagram, one wait, no HTTP
C10_Witness ==
  pc = "done" /\ udp_exc = "timeout" /\ nUdpSent = 1 /\ nUdpRecv = 1 /\ nGet = 0

\* C11: a failure of the device description (a non-2xx status, a transport
\* error or a body that does not parse) ends the run: it is reported, it is
\* handled, and no SCPD is fetched and no SOAP request is posted after it (the
\* description GET is the only HTTP request of the run).
C11_DescriptionFailureTerminal ==
  raised.at = "description"
    => /\ pc = "done"
       /\ ~Uncaught
       /\ raised.type \in RequestExceptions \cup {"ParseError"}
       /\ reported \cap {"Error while connecting to gateway", "Error parsing XML"} # {}
       /\ nGet <= 1
       /\ nPost = 0
       /\ si = 0
       /\ req.op \in {"none", "get"}
       /\ (req.op = "get" => req.url = Val(location))

\* the description came back with a body that ET.fromstring rejects
C11_Witness ==
  raised = [type |-> "ParseError", at |-> "description"] /\ nGet = 1

\* number of network operations issued so far
Operations == nUdpSent + nGet + nPost

\* C12: the stages run in order and one at a time. The discovery exchange is
\* over before the description GET; the description GET is the first GET; the
\* SCPD GETs take the services in document order, each one only when the
\* actions of the service before it are used up; the POSTs of a service take
\* its actions in declared order and only after its SCPD was fetched and
\* parsed; no step issues more than one network operation.
C12_StageOrdering ==
  /\ [](nGet >= 1 => nUdpSent = 1 /\ nUdpRecv = 1 /\ sock = "closed")
  /\ [](pc = "udp_recvfrom" => nUdpSent = nUdpRecv + 1 /\ nGet = 0 /\ nPost = 0)
  /\ [](pc = "action_loop" \/ req.op = "post" => si >= 1 /\ nGet = 1 + si)
  /\ [](nPost >= 1 => nGet >= 2)
  /\ [][ /\ Operations' <= Operations + 1
         /\ (nGet' # nGet /\ nGet = 0
               => pc = "fetch_description" /\ si = 0 /\ req'.url = Val(location))
         /\ (nGet' # nGet /\ nGet >= 1
               => /\ pc = "service_loop" /\ services # <<>> /\ actions = <<>>
                  /\ si' = si + 1
                  /\ services' = Tail(services)
                  /\ req'.url = RSplitOnce(Val(location), "/")[1]
                                  \o Val(Head(services).SCPDURL))
         /\ (si' # si => si' = si + 1 /\ actions = <<>>)
         /\ (actions' # actions
               => \/ /\ actions # <<>> /\ actions' = Tail(actions)
                     /\ ai' = ai + 1 /\ si' = si
                  \/ si' = si + 1 /\ ai' = 0 /\ req'.op = "get")
         /\ (nPost' # nPost
               => /\ pc = "action_loop" /\ actions # <<>>
                  /\ actions' = Tail(actions)
                  /\ req'.op = "post"
                  /\ req'.soapaction
                       = SoapAction(Val(service_type), Val(Head(actions).name)))
       ]_vars

\* an action of the second service is posted after one of the first service
C12_Witness ==
  req.op = "post" /\ examined.svc = 2 /\ nPost = 2 /\ nGet = 3

\* scheme and authority of an absolute URL
Origin(url) ==
  LET parts == SplitOnce(url, "://")
  IN parts[1] \o "://" \o SplitOnce(parts[2], "/")[1]

\* the resolution C13 states: an absolute reference stands for itself, a
\* root-relative one replaces the whole path of the base, a path-relative one
\* replaces the last segment of the base
StatedResolve(base, ref) ==
  IF HasScheme(ref) THEN ref
  ELSE IF StartsWith(ref, "/") THEN Origin(base) \o ref
  ELSE SubSeq(base, 1, RFind(base, "/")) \o ref

\* C13: the SCPD URL that is fetched and the control URL that is posted to
\* are the service's SCPDURL and controlURL resolved against the description
\* URL, whatever the depth of the description URL's path.
C13_UrlResolution ==
  [][ services # <<>> /\ si' = si + 1 /\ IsComplete(Head(services))
        => /\ control_url'
                = Some(StatedResolve(Val(location), Val(Head(services).controlURL)))
           /\ (req'.op = "get"
                 => req'.url
                      = StatedResolve(Val(location), Val(Head(services).SCPDURL)))
    ]_vars

\* C14: when the POST of an eligible action comes back 2xx, the body of the
\* response is reported as the result of that action, whatever the body is,
\* the empty body included.
C14_SuccessAlwaysReported ==
  examined.posts = 1 /\ examined.outcome = "2xx"
    => /\ out # <<>>
       /\ out[Len(out)] = "SOAP Response for " \o Val(examined.name)
                            \o ": " \o Val(examined.soap_response)

\* the run is over without having gone through all the services: an
\* exception ended it, or no description URL was ever obtained
StoppedEarly == pc = "done" /\ (raised # NoExc \/ location = None)

\* C15: a run that stops early has reported at least one failure; the empty
\* discovery reply and the missing gateway address are such stops.
C15_NoSilentAbort == StoppedEarly => reported \cap Failures # {}

\* C16: when get_default_gateway supplies no address the run ends at once:
\* the failure is reported, no socket is created, no datagram is sent or
\* awaited and no HTTP request is issued.
C16_NoGatewayNoTraffic ==
  pc # "start" /\ gateway_ip = None
    => /\ pc = "done"
       /\ "Could not determine the default gateway." \in reported
       /\ sock = "unbound"
       /\ nUdpSent = 0 /\ nUdpRecv = 0
       /\ nGet = 0 /\ nPost = 0
       /\ req = NoReq

\* the routing table has no default route
C16_Witness ==
  /\ pc = "done" /\ gateway_ip = None
  /\ reported = {"Could not determine the default gateway."}

\* C17: nothing is retried. The description is requested at most once, in
\* the one step that leaves the description stage for good; every SCPD GET
\* uses up one service entry and every POST one action declaration, entries
\* are never put back, and a failure of a GET ends the run where a failure
\* of a POST moves on to the next declaration.
C17_NoRetries ==
  /\ [](nGet <= 1 + si)
  /\ [](pc = "fetch_description" => nGet = 0 /\ nPost = 0)
  /\ [](examined.posts <= 1)
  /\ [][ /\ nGet' \in {nGet, nGet + 1}
         /\ nPost' \in {nPost, nPost + 1}
         /\ (pc = "fetch_description" => pc' # "fetch_description")
         /\ (pc' = "fetch_description" => pc = "extract_location")
         /\ (nGet' # nGet /\ pc # "fetch_description"
               => services # <<>> /\ services' = Tail(services) /\ si' = si + 1)
         /\ (nPost' # nPost
               => /\ actions # <<>> /\ actions' = Tail(actions) /\ ai' = ai + 1
                  /\ examined'.posts = 1)
         /\ (pc # "fetch_description" => Len(services') <= Len(services))
         /\ (si' = si => Len(actions') <= Len(actions))
         /\ (raised' # NoExc => pc' = "done")
       ]_vars

\* a POST that timed out was sent once, and the loop is on to the next action
C17_Witness ==
  /\ pc = "action_loop"
  /\ examined.outcome = "Timeout" /\ examined.posts = 1
  /\ nPost = 1

\* C18: a POST is only ever sent for an action whose name starts with Get
\* and whose arguments all have the direction 'out', spelled exactly so.
C18_ConservativeInvocation ==
  req.op = "post" \/ examined.posts >= 1
    => /\ examined.name # None
       /\ StartsWith(Val(examined.name), "Get")
       /\ \A i \in DOMAIN examined.directions : examined.directions[i] = "out"
       /\ req.soapaction = SoapAction(Val(service_type), Val(examined.name))

\* a Get action with an argument of direction 'inout' was examined and left alone
C18_Witness ==
  /\ examined.name = Some("GetStatusInfo")
  /\ examined.directions = <<"inout">>
  /\ examined.posts = 0 /\ req.op = "none"

\* C19: the step that loads the SCPD of a service binds the service type and
\* the control URL of that same service; the binding stays while the actions
\* of that SCPD are gone through; and every POST goes to the bound control
\* URL, with the bound service type in its SOAPAction header and in the
\* namespace of its body.
C19_ServiceBinding ==
  /\ [](req.op = "post"
          => /\ examined.svc = si
             /\ req.url = Val(control_url)
             /\ req.soapaction
                  = "\"" \o Val(service_type) \o "#" \o Val(examined.name) \o "\""
             /\ req.body = SoapEnvelope(Val(service_type), Val(examined.name), ""))
  /\ [][ /\ (si' = si => service_type' = service_type /\ control_url' = control_url)
         /\ (si' # si /\ pc' = "action_loop"
               => /\ services # <<>>
                  /\ service_type' = Head(services).serviceType
                  /\ control_url'
                       = Some(JoinUrl(Val(location), Val(Head(services).controlURL)))
                  /\ req'.url = JoinUrl(Val(location), Val(Head(services).SCPDURL)))
       ]_vars

\* after a POST for the first service, an action of the second service is
\* posted to the second service's control URL under the second service's type
C19_Witness ==
  /\ req.op = "post" /\ si = 2 /\ nPost = 2
  /\ service_type = Layer3Forwarding.serviceType
  /\ req.url = "http://192.168.1.1:5000/l3f/control"

\* number of service elements of the device description (0 before it is parsed)
NumServices == si + Len(services)

\* C20: every run reaches its end and stays there, and at no point has it
\* issued more network operations than 2 + (number of services) + (number of
\* actions declared by the SCPDs it parsed): at most one datagram, one
\* description GET, one SCPD GET per service and one POST per action.
C20_Termination ==
  /\ <>(pc = "done")
  /\ [][pc # "done"]_vars
  /\ [](Operations <= 2 + NumServices + nActions)
  /\ [](nUdpSent <= 1 /\ nGet <= 1 + NumServices /\ nPost <= nActions - Len(actions))

\* a complete run over two services that used the whole budget: every
\* declared action was posted
C20_Witness ==
  /\ pc = "done" /\ raised = NoExc
  /\ si = 2 /\ nActions >= 2
  /\ Operations = 2 + NumServices + nActions

====
